---------------------------- MODULE Spec2Model ----------------------------
(***************************************************************************)
(* Navigation core of mcshader-lsp (server/main/src/navigation.rs):        *)
(* find_definitions / find_references over a parsed syntax tree.           *)
(*                                                                         *)
(* A ParserContext holds one source text and its syntax tree.  The source  *)
(* is a sequence of bytes (one-character strings), the tree a sequence of  *)
(* nodes in pre-order, each with kind, named flag, parent index (0: none), *)
(* byte span and point span, as tree_sitter::Node exposes them.  The       *)
(* library operations the code calls (named_descendant_for_point_range,    *)
(* Node::parent, QueryCursor::matches, the #match? predicate) are modelled *)
(* by what they compute on such trees.                                     *)
(***************************************************************************)
EXTENDS Integers, Sequences, FiniteSets, TLC

VARIABLES
  doc,            \* the file the ParserContext was built from (index into Corpus)
  overflowChecks, \* build profile: TRUE = overflow checks on (debug), FALSE = wrapping (release)
  op,             \* entry point of the current request: "none", "definitions", "references"
  pos,            \* cursor Position {line, character} of the current request
  pc,             \* "idle", "climb" (inside tree_climbing_search's loop), "done", "panic"
  node,           \* node returned by find_node_at_point (0: none)
  parent,         \* tree_climbing_search's `parent` (0: None)
  locations,      \* tree_climbing_search's `locations`
  strategy,       \* search selected by the (kind, parent kind) match: "none", "function_def",
                  \* "function_refs", "variable_def"
  searches,       \* roots the Query Engine has been run over in this request, in order
  result          \* outcome of the request: [tag: "pending" | "None" | "Some" | "Err" | "panic", locs]

vars == <<doc, overflowChecks, op, pos, pc, node, parent, locations, strategy, searches, result>>

(***************************************************************************)
(* Nodes and documents.  Each source file is given with the syntax tree    *)
(* the GLSL grammar yields for it: N(kind, named, parent, start byte, end  *)
(* byte, start row, start column, end row, end column), anonymous tokens   *)
(* included, the root first.                                               *)
(***************************************************************************)
N(kind, named, parentIdx, sb, eb, sr, sc, er, ec) ==
  [kind |-> kind, named |-> named, parent |-> parentIdx,
   startByte |-> sb, endByte |-> eb,
   startPoint |-> [row |-> sr, column |-> sc],
   endPoint |-> [row |-> er, column |-> ec]]

(* ----------------------------------------------------------------------
   | vec3 shade(vec3 n) { vec3 c = n; return c; }
   | void main() { shade(normal); }
   ---------------------------------------------------------------------- *)
Source1 ==
  <<"v", "e", "c", "3", " ", "s", "h", "a", "d", "e", "(", "v", "e", "c", "3", " ", "n", ")", " ", "{", " ", "v", "e", "c", "3", " ", "c", " ", "=", " ", "n", ";", " ", "r", "e", "t", "u", "r", "n", " ", "c", ";", " ", "}", "\n">>
  \o <<"v", "o", "i", "d", " ", "m", "a", "i", "n", "(", ")", " ", "{", " ", "s", "h", "a", "d", "e", "(", "n", "o", "r", "m", "a", "l", ")", ";", " ", "}", "\n">>

Tree1 ==
  << N("translation_unit", TRUE, 0, 0, 76, 0, 0, 2, 0),
     N("function_definition", TRUE, 1, 0, 44, 0, 0, 0, 44),
     N("primitive_type", TRUE, 2, 0, 4, 0, 0, 0, 4),
     N("function_declarator", TRUE, 2, 5, 18, 0, 5, 0, 18),
     N("identifier", TRUE, 4, 5, 10, 0, 5, 0, 10),
     N("parameter_list", TRUE, 4, 10, 18, 0, 10, 0, 18),
     N("(", FALSE, 6, 10, 11, 0, 10, 0, 11),
     N("parameter_declaration", TRUE, 6, 11, 17, 0, 11, 0, 17),
     N("primitive_type", TRUE, 8, 11, 15, 0, 11, 0, 15),
     N("identifier", TRUE, 8, 16, 17, 0, 16, 0, 17),
     N(")", FALSE, 6, 17, 18, 0, 17, 0, 18),
     N("compound_statement", TRUE, 2, 19, 44, 0, 19, 0, 44),
     N("{", FALSE, 12, 19, 20, 0, 19, 0, 20),
     N("declaration", TRUE, 12, 21, 32, 0, 21, 0, 32),
     N("primitive_type", TRUE, 14, 21, 25, 0, 21, 0, 25),
     N("init_declarator", TRUE, 14, 26, 31, 0, 26, 0, 31),
     N("identifier", TRUE, 16, 26, 27, 0, 26, 0, 27),
     N("=", FALSE, 16, 28, 29, 0, 28, 0, 29),
     N("identifier", TRUE, 16, 30, 31, 0, 30, 0, 31),
     N(";", FALSE, 14, 31, 32, 0, 31, 0, 32),
     N("return_statement", TRUE, 12, 33, 42, 0, 33, 0, 42),
     N("return", FALSE, 21, 33, 39, 0, 33, 0, 39),
     N("identifier", TRUE, 21, 40, 41, 0, 40, 0, 41),
     N(";", FALSE, 21, 41, 42, 0, 41, 0, 42),
     N("}", FALSE, 12, 43, 44, 0, 43, 0, 44),
     N("function_definition", TRUE, 1, 45, 75, 1, 0, 1, 30),
     N("primitive_type", TRUE, 26, 45, 49, 1, 0, 1, 4),
     N("function_declarator", TRUE, 26, 50, 56, 1, 5, 1, 11),
     N("identifier", TRUE, 28, 50, 54, 1, 5, 1, 9),
     N("parameter_list", TRUE, 28, 54, 56, 1, 9, 1, 11),
     N("(", FALSE, 30, 54, 55, 1, 9, 1, 10),
     N(")", FALSE, 30, 55, 56, 1, 10, 1, 11),
     N("compound_statement", TRUE, 26, 57, 75, 1, 12, 1, 30),
     N("{", FALSE, 33, 57, 58, 1, 12, 1, 13),
     N("expression_statement", TRUE, 33, 59, 73, 1, 14, 1, 28),
     N("call_expression", TRUE, 35, 59, 72, 1, 14, 1, 27),
     N("identifier", TRUE, 36, 59, 64, 1, 14, 1, 19),
     N("argument_list", TRUE, 36, 64, 72, 1, 19, 1, 27),
     N("(", FALSE, 38, 64, 65, 1, 19, 1, 20),
     N("identifier", TRUE, 38, 65, 71, 1, 20, 1, 26),
     N(")", FALSE, 38, 71, 72, 1, 26, 1, 27),
     N(";", FALSE, 35, 72, 73, 1, 27, 1, 28),
     N("}", FALSE, 33, 74, 75, 1, 29, 1, 30) >>

(* ----------------------------------------------------------------------
   | float foo(float a) { return a; }
   | float foobar(float b) { return foo(b) + foo(1.0); }
   | float barfoo() { return foobar(2.0) * barfoo(); }
   ---------------------------------------------------------------------- *)
Source2 ==
  <<"f", "l", "o", "a", "t", " ", "f", "o", "o", "(", "f", "l", "o", "a", "t", " ", "a", ")", " ", "{", " ", "r", "e", "t", "u", "r", "n", " ", "a", ";", " ", "}", "\n">>
  \o <<"f", "l", "o", "a", "t", " ", "f", "o", "o", "b", "a", "r", "(", "f", "l", "o", "a", "t", " ", "b", ")", " ", "{", " ", "r", "e", "t", "u", "r", "n", " ", "f", "o", "o", "(", "b", ")", " ", "+", " ", "f", "o", "o", "(", "1", ".", "0", ")", ";", " ", "}", "\n">>
  \o <<"f", "l", "o", "a", "t", " ", "b", "a", "r", "f", "o", "o", "(", ")", " ", "{", " ", "r", "e", "t", "u", "r", "n", " ", "f", "o", "o", "b", "a", "r", "(", "2", ".", "0", ")", " ", "*", " ", "b", "a", "r", "f", "o", "o", "(", ")", ";", " ", "}", "\n">>

Tree2 ==
  << N("translation_unit", TRUE, 0, 0, 135, 0, 0, 3, 0),
     N("function_definition", TRUE, 1, 0, 32, 0, 0, 0, 32),
     N("primitive_type", TRUE, 2, 0, 5, 0, 0, 0, 5),
     N("function_declarator", TRUE, 2, 6, 18, 0, 6, 0, 18),
     N("identifier", TRUE, 4, 6, 9, 0, 6, 0, 9),
     N("parameter_list", TRUE, 4, 9, 18, 0, 9, 0, 18),
     N("(", FALSE, 6, 9, 10, 0, 9, 0, 10),
     N("parameter_declaration", TRUE, 6, 10, 17, 0, 10, 0, 17),
     N("primitive_type", TRUE, 8, 10, 15, 0, 10, 0, 15),
     N("identifier", TRUE, 8, 16, 17, 0, 16, 0, 17),
     N(")", FALSE, 6, 17, 18, 0, 17, 0, 18),
     N("compound_statement", TRUE, 2, 19, 32, 0, 19, 0, 32),
     N("{", FALSE, 12, 19, 20, 0, 19, 0, 20),
     N("return_statement", TRUE, 12, 21, 30, 0, 21, 0, 30),
     N("return", FALSE, 14, 21, 27, 0, 21, 0, 27),
     N("identifier", TRUE, 14, 28, 29, 0, 28, 0, 29),
     N(";", FALSE, 14, 29, 30, 0, 29, 0, 30),
     N("}", FALSE, 12, 31, 32, 0, 31, 0, 32),
     N("function_definition", TRUE, 1, 33, 84, 1, 0, 1, 51),
     N("primitive_type", TRUE, 19, 33, 38, 1, 0, 1, 5),
     N("function_declarator", TRUE, 19, 39, 54, 1, 6, 1, 21),
     N("identifier", TRUE, 21, 39, 45, 1, 6, 1, 12),
     N("parameter_list", TRUE, 21, 45, 54, 1, 12, 1, 21),
     N("(", FALSE, 23, 45, 46, 1, 12, 1, 13),
     N("parameter_declaration", TRUE, 23, 46, 53, 1, 13, 1, 20),
     N("primitive_type", TRUE, 25, 46, 51, 1, 13, 1, 18),
     N("identifier", TRUE, 25, 52, 53, 1, 19, 1, 20),
     N(")", FALSE, 23, 53, 54, 1, 20, 1, 21),
     N("compound_statement", TRUE, 19, 55, 84, 1, 22, 1, 51),
     N("{", FALSE, 29, 55, 56, 1, 22, 1, 23),
     N("return_statement", TRUE, 29, 57, 82, 1, 24, 1, 49),
     N("return", FALSE, 31, 57, 63, 1, 24, 1, 30),
     N("binary_expression", TRUE, 31, 64, 81, 1, 31, 1, 48),
     N("call_expression", TRUE, 33, 64, 70, 1, 31, 1, 37),
     N("identifier", TRUE, 34, 64, 67, 1, 31, 1, 34),
     N("argument_list", TRUE, 34, 67, 70, 1, 34, 1, 37),
     N("(", FALSE, 36, 67, 68, 1, 34, 1, 35),
     N("identifier", TRUE, 36, 68, 69, 1, 35, 1, 36),
     N(")", FALSE, 36, 69, 70, 1, 36, 1, 37),
     N("+", FALSE, 33, 71, 72, 1, 38, 1, 39),
     N("call_expression", TRUE, 33, 73, 81, 1, 40, 1, 48),
     N("identifier", TRUE, 41, 73, 76, 1, 40, 1, 43),
     N("argument_list", TRUE, 41, 76, 81, 1, 43, 1, 48),
     N("(", FALSE, 43, 76, 77, 1, 43, 1, 44),
     N("number_literal", TRUE, 43, 77, 80, 1, 44, 1, 47),
     N(")", FALSE, 43, 80, 81, 1, 47, 1, 48),
     N(";", FALSE, 31, 81, 82, 1, 48, 1, 49),
     N("}", FALSE, 29, 83, 84, 1, 50, 1, 51),
     N("function_definition", TRUE, 1, 85, 134, 2, 0, 2, 49),
     N("primitive_type", TRUE, 49, 85, 90, 2, 0, 2, 5),
     N("function_declarator", TRUE, 49, 91, 99, 2, 6, 2, 14),
     N("identifier", TRUE, 51, 91, 97, 2, 6, 2, 12),
     N("parameter_list", TRUE, 51, 97, 99, 2, 12, 2, 14),
     N("(", FALSE, 53, 97, 98, 2, 12, 2, 13),
     N(")", FALSE, 53, 98, 99, 2, 13, 2, 14),
     N("compound_statement", TRUE, 49, 100, 134, 2, 15, 2, 49),
     N("{", FALSE, 56, 100, 101, 2, 15, 2, 16),
     N("return_statement", TRUE, 56, 102, 132, 2, 17, 2, 47),
     N("return", FALSE, 58, 102, 108, 2, 17, 2, 23),
     N("binary_expression", TRUE, 58, 109, 131, 2, 24, 2, 46),
     N("call_expression", TRUE, 60, 109, 120, 2, 24, 2, 35),
     N("identifier", TRUE, 61, 109, 115, 2, 24, 2, 30),
     N("argument_list", TRUE, 61, 115, 120, 2, 30, 2, 35),
     N("(", FALSE, 63, 115, 116, 2, 30, 2, 31),
     N("number_literal", TRUE, 63, 116, 119, 2, 31, 2, 34),
     N(")", FALSE, 63, 119, 120, 2, 34, 2, 35),
     N("*", FALSE, 60, 121, 122, 2, 36, 2, 37),
     N("call_expression", TRUE, 60, 123, 131, 2, 38, 2, 46),
     N("identifier", TRUE, 68, 123, 129, 2, 38, 2, 44),
     N("argument_list", TRUE, 68, 129, 131, 2, 44, 2, 46),
     N("(", FALSE, 70, 129, 130, 2, 44, 2, 45),
     N(")", FALSE, 70, 130, 131, 2, 45, 2, 46),
     N(";", FALSE, 58, 131, 132, 2, 46, 2, 47),
     N("}", FALSE, 56, 133, 134, 2, 48, 2, 49) >>

(* ----------------------------------------------------------------------
   | void main() { int foo = 1; int foobar = 2; int barfoo = 3;
   | foo = foobar + barfoo; v.foo = foo; }
   ---------------------------------------------------------------------- *)
Source3 ==
  <<"v", "o", "i", "d", " ", "m", "a", "i", "n", "(", ")", " ", "{", " ", "i", "n", "t", " ", "f", "o", "o", " ", "=", " ", "1", ";", " ", "i", "n", "t", " ", "f", "o", "o", "b", "a", "r", " ", "=", " ", "2", ";", " ", "i", "n", "t", " ", "b", "a", "r", "f", "o", "o", " ", "=", " ", "3", ";", "\n">>
  \o <<"f", "o", "o", " ", "=", " ", "f", "o", "o", "b", "a", "r", " ", "+", " ", "b", "a", "r", "f", "o", "o", ";", " ", "v", ".", "f", "o", "o", " ", "=", " ", "f", "o", "o", ";", " ", "}", "\n">>

Tree3 ==
  << N("translation_unit", TRUE, 0, 0, 97, 0, 0, 2, 0),
     N("function_definition", TRUE, 1, 0, 96, 0, 0, 1, 37),
     N("primitive_type", TRUE, 2, 0, 4, 0, 0, 0, 4),
     N("function_declarator", TRUE, 2, 5, 11, 0, 5, 0, 11),
     N("identifier", TRUE, 4, 5, 9, 0, 5, 0, 9),
     N("parameter_list", TRUE, 4, 9, 11, 0, 9, 0, 11),
     N("(", FALSE, 6, 9, 10, 0, 9, 0, 10),
     N(")", FALSE, 6, 10, 11, 0, 10, 0, 11),
     N("compound_statement", TRUE, 2, 12, 96, 0, 12, 1, 37),
     N("{", FALSE, 9, 12, 13, 0, 12, 0, 13),
     N("declaration", TRUE, 9, 14, 26, 0, 14, 0, 26),
     N("primitive_type", TRUE, 11, 14, 17, 0, 14, 0, 17),
     N("init_declarator", TRUE, 11, 18, 25, 0, 18, 0, 25),
     N("identifier", TRUE, 13, 18, 21, 0, 18, 0, 21),
     N("=", FALSE, 13, 22, 23, 0, 22, 0, 23),
     N("number_literal", TRUE, 13, 24, 25, 0, 24, 0, 25),
     N(";", FALSE, 11, 25, 26, 0, 25, 0, 26),
     N("declaration", TRUE, 9, 27, 42, 0, 27, 0, 42),
     N("primitive_type", TRUE, 18, 27, 30, 0, 27, 0, 30),
     N("init_declarator", TRUE, 18, 31, 41, 0, 31, 0, 41),
     N("identifier", TRUE, 20, 31, 37, 0, 31, 0, 37),
     N("=", FALSE, 20, 38, 39, 0, 38, 0, 39),
     N("number_literal", TRUE, 20, 40, 41, 0, 40, 0, 41),
     N(";", FALSE, 18, 41, 42, 0, 41, 0, 42),
     N("declaration", TRUE, 9, 43, 58, 0, 43, 0, 58),
     N("primitive_type", TRUE, 25, 43, 46, 0, 43, 0, 46),
     N("init_declarator", TRUE, 25, 47, 57, 0, 47, 0, 57),
     N("identifier", TRUE, 27, 47, 53, 0, 47, 0, 53),
     N("=", FALSE, 27, 54, 55, 0, 54, 0, 55),
     N("number_literal", TRUE, 27, 56, 57, 0, 56, 0, 57),
     N(";", FALSE, 25, 57, 58, 0, 57, 0, 58),
     N("expression_statement", TRUE, 9, 59, 81, 1, 0, 1, 22),
     N("assignment_expression", TRUE, 32, 59, 80, 1, 0, 1, 21),
     N("identifier", TRUE, 33, 59, 62, 1, 0, 1, 3),
     N("=", FALSE, 33, 63, 64, 1, 4, 1, 5),
     N("binary_expression", TRUE, 33, 65, 80, 1, 6, 1, 21),
     N("identifier", TRUE, 36, 65, 71, 1, 6, 1, 12),
     N("+", FALSE, 36, 72, 73, 1, 13, 1, 14),
     N("identifier", TRUE, 36, 74, 80, 1, 15, 1, 21),
     N(";", FALSE, 32, 80, 81, 1, 21, 1, 22),
     N("expression_statement", TRUE, 9, 82, 94, 1, 23, 1, 35),
     N("assignment_expression", TRUE, 41, 82, 93, 1, 23, 1, 34),
     N("field_expression", TRUE, 42, 82, 87, 1, 23, 1, 28),
     N("identifier", TRUE, 43, 82, 83, 1, 23, 1, 24),
     N(".", FALSE, 43, 83, 84, 1, 24, 1, 25),
     N("field_identifier", TRUE, 43, 84, 87, 1, 25, 1, 28),
     N("=", FALSE, 42, 88, 89, 1, 29, 1, 30),
     N("identifier", TRUE, 42, 90, 93, 1, 31, 1, 34),
     N(";", FALSE, 41, 93, 94, 1, 34, 1, 35),
     N("}", FALSE, 9, 95, 96, 1, 36, 1, 37) >>

(* ----------------------------------------------------------------------
   | void main() { int x = 1; { x = 2; int x = 3; } x = 4; }
   ---------------------------------------------------------------------- *)
Source4 ==
  <<"v", "o", "i", "d", " ", "m", "a", "i", "n", "(", ")", " ", "{", " ", "i", "n", "t", " ", "x", " ", "=", " ", "1", ";", " ", "{", " ", "x", " ", "=", " ", "2", ";", " ", "i", "n", "t", " ", "x", " ", "=", " ", "3", ";", " ", "}", " ", "x", " ", "=", " ", "4", ";", " ", "}", "\n">>

Tree4 ==
  << N("translation_unit", TRUE, 0, 0, 56, 0, 0, 1, 0),
     N("function_definition", TRUE, 1, 0, 55, 0, 0, 0, 55),
     N("primitive_type", TRUE, 2, 0, 4, 0, 0, 0, 4),
     N("function_declarator", TRUE, 2, 5, 11, 0, 5, 0, 11),
     N("identifier", TRUE, 4, 5, 9, 0, 5, 0, 9),
     N("parameter_list", TRUE, 4, 9, 11, 0, 9, 0, 11),
     N("(", FALSE, 6, 9, 10, 0, 9, 0, 10),
     N(")", FALSE, 6, 10, 11, 0, 10, 0, 11),
     N("compound_statement", TRUE, 2, 12, 55, 0, 12, 0, 55),
     N("{", FALSE, 9, 12, 13, 0, 12, 0, 13),
     N("declaration", TRUE, 9, 14, 24, 0, 14, 0, 24),
     N("primitive_type", TRUE, 11, 14, 17, 0, 14, 0, 17),
     N("init_declarator", TRUE, 11, 18, 23, 0, 18, 0, 23),
     N("identifier", TRUE, 13, 18, 19, 0, 18, 0, 19),
     N("=", FALSE, 13, 20, 21, 0, 20, 0, 21),
     N("number_literal", TRUE, 13, 22, 23, 0, 22, 0, 23),
     N(";", FALSE, 11, 23, 24, 0, 23, 0, 24),
     N("compound_statement", TRUE, 9, 25, 46, 0, 25, 0, 46),
     N("{", FALSE, 18, 25, 26, 0, 25, 0, 26),
     N("expression_statement", TRUE, 18, 27, 33, 0, 27, 0, 33),
     N("assignment_expression", TRUE, 20, 27, 32, 0, 27, 0, 32),
     N("identifier", TRUE, 21, 27, 28, 0, 27, 0, 28),
     N("=", FALSE, 21, 29, 30, 0, 29, 0, 30),
     N("number_literal", TRUE, 21, 31, 32, 0, 31, 0, 32),
     N(";", FALSE, 20, 32, 33, 0, 32, 0, 33),
     N("declaration", TRUE, 18, 34, 44, 0, 34, 0, 44),
     N("primitive_type", TRUE, 26, 34, 37, 0, 34, 0, 37),
     N("init_declarator", TRUE, 26, 38, 43, 0, 38, 0, 43),
     N("identifier", TRUE, 28, 38, 39, 0, 38, 0, 39),
     N("=", FALSE, 28, 40, 41, 0, 40, 0, 41),
     N("number_literal", TRUE, 28, 42, 43, 0, 42, 0, 43),
     N(";", FALSE, 26, 43, 44, 0, 43, 0, 44),
     N("}", FALSE, 18, 45, 46, 0, 45, 0, 46),
     N("expression_statement", TRUE, 9, 47, 53, 0, 47, 0, 53),
     N("assignment_expression", TRUE, 34, 47, 52, 0, 47, 0, 52),
     N("identifier", TRUE, 35, 47, 48, 0, 47, 0, 48),
     N("=", FALSE, 35, 49, 50, 0, 49, 0, 50),
     N("number_literal", TRUE, 35, 51, 52, 0, 51, 0, 52),
     N(";", FALSE, 34, 52, 53, 0, 52, 0, 53),
     N("}", FALSE, 9, 54, 55, 0, 54, 0, 55) >>

(* ----------------------------------------------------------------------
   | void main() { int x; { int x; { int x; } x = 1; } }
   ---------------------------------------------------------------------- *)
Source5 ==
  <<"v", "o", "i", "d", " ", "m", "a", "i", "n", "(", ")", " ", "{", " ", "i", "n", "t", " ", "x", ";", " ", "{", " ", "i", "n", "t", " ", "x", ";", " ", "{", " ", "i", "n", "t", " ", "x", ";", " ", "}", " ", "x", " ", "=", " ", "1", ";", " ", "}", " ", "}", "\n">>

Tree5 ==
  << N("translation_unit", TRUE, 0, 0, 52, 0, 0, 1, 0),
     N("function_definition", TRUE, 1, 0, 51, 0, 0, 0, 51),
     N("primitive_type", TRUE, 2, 0, 4, 0, 0, 0, 4),
     N("function_declarator", TRUE, 2, 5, 11, 0, 5, 0, 11),
     N("identifier", TRUE, 4, 5, 9, 0, 5, 0, 9),
     N("parameter_list", TRUE, 4, 9, 11, 0, 9, 0, 11),
     N("(", FALSE, 6, 9, 10, 0, 9, 0, 10),
     N(")", FALSE, 6, 10, 11, 0, 10, 0, 11),
     N("compound_statement", TRUE, 2, 12, 51, 0, 12, 0, 51),
     N("{", FALSE, 9, 12, 13, 0, 12, 0, 13),
     N("declaration", TRUE, 9, 14, 20, 0, 14, 0, 20),
     N("primitive_type", TRUE, 11, 14, 17, 0, 14, 0, 17),
     N("identifier", TRUE, 11, 18, 19, 0, 18, 0, 19),
     N(";", FALSE, 11, 19, 20, 0, 19, 0, 20),
     N("compound_statement", TRUE, 9, 21, 49, 0, 21, 0, 49),
     N("{", FALSE, 15, 21, 22, 0, 21, 0, 22),
     N("declaration", TRUE, 15, 23, 29, 0, 23, 0, 29),
     N("primitive_type", TRUE, 17, 23, 26, 0, 23, 0, 26),
     N("identifier", TRUE, 17, 27, 28, 0, 27, 0, 28),
     N(";", FALSE, 17, 28, 29, 0, 28, 0, 29),
     N("compound_statement", TRUE, 15, 30, 40, 0, 30, 0, 40),
     N("{", FALSE, 21, 30, 31, 0, 30, 0, 31),
     N("declaration", TRUE, 21, 32, 38, 0, 32, 0, 38),
     N("primitive_type", TRUE, 23, 32, 35, 0, 32, 0, 35),
     N("identifier", TRUE, 23, 36, 37, 0, 36, 0, 37),
     N(";", FALSE, 23, 37, 38, 0, 37, 0, 38),
     N("}", FALSE, 21, 39, 40, 0, 39, 0, 40),
     N("expression_statement", TRUE, 15, 41, 47, 0, 41, 0, 47),
     N("assignment_expression", TRUE, 28, 41, 46, 0, 41, 0, 46),
     N("identifier", TRUE, 29, 41, 42, 0, 41, 0, 42),
     N("=", FALSE, 29, 43, 44, 0, 43, 0, 44),
     N("number_literal", TRUE, 29, 45, 46, 0, 45, 0, 46),
     N(";", FALSE, 28, 46, 47, 0, 46, 0, 47),
     N("}", FALSE, 15, 48, 49, 0, 48, 0, 49),
     N("}", FALSE, 9, 50, 51, 0, 50, 0, 51) >>

(* ----------------------------------------------------------------------
   | void main() {
   |   _t = a1 + _t;
   | }
   ---------------------------------------------------------------------- *)
Source6 ==
  <<"v", "o", "i", "d", " ", "m", "a", "i", "n", "(", ")", " ", "{", "\n">>
  \o <<" ", " ", "_", "t", " ", "=", " ", "a", "1", " ", "+", " ", "_", "t", ";", "\n">>
  \o <<"}", "\n">>

Tree6 ==
  << N("translation_unit", TRUE, 0, 0, 32, 0, 0, 3, 0),
     N("function_definition", TRUE, 1, 0, 31, 0, 0, 2, 1),
     N("primitive_type", TRUE, 2, 0, 4, 0, 0, 0, 4),
     N("function_declarator", TRUE, 2, 5, 11, 0, 5, 0, 11),
     N("identifier", TRUE, 4, 5, 9, 0, 5, 0, 9),
     N("parameter_list", TRUE, 4, 9, 11, 0, 9, 0, 11),
     N("(", FALSE, 6, 9, 10, 0, 9, 0, 10),
     N(")", FALSE, 6, 10, 11, 0, 10, 0, 11),
     N("compound_statement", TRUE, 2, 12, 31, 0, 12, 2, 1),
     N("{", FALSE, 9, 12, 13, 0, 12, 0, 13),
     N("expression_statement", TRUE, 9, 16, 29, 1, 2, 1, 15),
     N("assignment_expression", TRUE, 11, 16, 28, 1, 2, 1, 14),
     N("identifier", TRUE, 12, 16, 18, 1, 2, 1, 4),
     N("=", FALSE, 12, 19, 20, 1, 5, 1, 6),
     N("binary_expression", TRUE, 12, 21, 28, 1, 7, 1, 14),
     N("identifier", TRUE, 15, 21, 23, 1, 7, 1, 9),
     N("+", FALSE, 15, 24, 25, 1, 10, 1, 11),
     N("identifier", TRUE, 15, 26, 28, 1, 12, 1, 14),
     N(";", FALSE, 11, 28, 29, 1, 14, 1, 15),
     N("}", FALSE, 9, 30, 31, 2, 0, 2, 1) >>

(* ----------------------------------------------------------------------
   | void f(Light);
   | void main() { g = Light(1); }
   ---------------------------------------------------------------------- *)
Source7 ==
  <<"v", "o", "i", "d", " ", "f", "(", "L", "i", "g", "h", "t", ")", ";", "\n">>
  \o <<"v", "o", "i", "d", " ", "m", "a", "i", "n", "(", ")", " ", "{", " ", "g", " ", "=", " ", "L", "i", "g", "h", "t", "(", "1", ")", ";", " ", "}", "\n">>

Tree7 ==
  << N("translation_unit", TRUE, 0, 0, 45, 0, 0, 2, 0),
     N("declaration", TRUE, 1, 0, 14, 0, 0, 0, 14),
     N("primitive_type", TRUE, 2, 0, 4, 0, 0, 0, 4),
     N("function_declarator", TRUE, 2, 5, 13, 0, 5, 0, 13),
     N("identifier", TRUE, 4, 5, 6, 0, 5, 0, 6),
     N("parameter_list", TRUE, 4, 6, 13, 0, 6, 0, 13),
     N("(", FALSE, 6, 6, 7, 0, 6, 0, 7),
     N("parameter_declaration", TRUE, 6, 7, 12, 0, 7, 0, 12),
     N("type_identifier", TRUE, 8, 7, 12, 0, 7, 0, 12),
     N(")", FALSE, 6, 12, 13, 0, 12, 0, 13),
     N(";", FALSE, 2, 13, 14, 0, 13, 0, 14),
     N("function_definition", TRUE, 1, 15, 44, 1, 0, 1, 29),
     N("primitive_type", TRUE, 12, 15, 19, 1, 0, 1, 4),
     N("function_declarator", TRUE, 12, 20, 26, 1, 5, 1, 11),
     N("identifier", TRUE, 14, 20, 24, 1, 5, 1, 9),
     N("parameter_list", TRUE, 14, 24, 26, 1, 9, 1, 11),
     N("(", FALSE, 16, 24, 25, 1, 9, 1, 10),
     N(")", FALSE, 16, 25, 26, 1, 10, 1, 11),
     N("compound_statement", TRUE, 12, 27, 44, 1, 12, 1, 29),
     N("{", FALSE, 19, 27, 28, 1, 12, 1, 13),
     N("expression_statement", TRUE, 19, 29, 42, 1, 14, 1, 27),
     N("assignment_expression", TRUE, 21, 29, 41, 1, 14, 1, 26),
     N("identifier", TRUE, 22, 29, 30, 1, 14, 1, 15),
     N("=", FALSE, 22, 31, 32, 1, 16, 1, 17),
     N("call_expression", TRUE, 22, 33, 41, 1, 18, 1, 26),
     N("identifier", TRUE, 25, 33, 38, 1, 18, 1, 23),
     N("argument_list", TRUE, 25, 38, 41, 1, 23, 1, 26),
     N("(", FALSE, 27, 38, 39, 1, 23, 1, 24),
     N("number_literal", TRUE, 27, 39, 40, 1, 24, 1, 25),
     N(")", FALSE, 27, 40, 41, 1, 25, 1, 26),
     N(";", FALSE, 21, 41, 42, 1, 26, 1, 27),
     N("}", FALSE, 19, 43, 44, 1, 28, 1, 29) >>

(* ----------------------------------------------------------------------
   | void main() { int y; { int y; { y = y + 1; } } }
   ---------------------------------------------------------------------- *)
Source8 ==
  <<"v", "o", "i", "d", " ", "m", "a", "i", "n", "(", ")", " ", "{", " ", "i", "n", "t", " ", "y", ";", " ", "{", " ", "i", "n", "t", " ", "y", ";", " ", "{", " ", "y", " ", "=", " ", "y", " ", "+", " ", "1", ";", " ", "}", " ", "}", " ", "}", "\n">>

Tree8 ==
  << N("translation_unit", TRUE, 0, 0, 49, 0, 0, 1, 0),
     N("function_definition", TRUE, 1, 0, 48, 0, 0, 0, 48),
     N("primitive_type", TRUE, 2, 0, 4, 0, 0, 0, 4),
     N("function_declarator", TRUE, 2, 5, 11, 0, 5, 0, 11),
     N("identifier", TRUE, 4, 5, 9, 0, 5, 0, 9),
     N("parameter_list", TRUE, 4, 9, 11, 0, 9, 0, 11),
     N("(", FALSE, 6, 9, 10, 0, 9, 0, 10),
     N(")", FALSE, 6, 10, 11, 0, 10, 0, 11),
     N("compound_statement", TRUE, 2, 12, 48, 0, 12, 0, 48),
     N("{", FALSE, 9, 12, 13, 0, 12, 0, 13),
     N("declaration", TRUE, 9, 14, 20, 0, 14, 0, 20),
     N("primitive_type", TRUE, 11, 14, 17, 0, 14, 0, 17),
     N("identifier", TRUE, 11, 18, 19, 0, 18, 0, 19),
     N(";", FALSE, 11, 19, 20, 0, 19, 0, 20),
     N("compound_statement", TRUE, 9, 21, 46, 0, 21, 0, 46),
     N("{", FALSE, 15, 21, 22, 0, 21, 0, 22),
     N("declaration", TRUE, 15, 23, 29, 0, 23, 0, 29),
     N("primitive_type", TRUE, 17, 23, 26, 0, 23, 0, 26),
     N("identifier", TRUE, 17, 27, 28, 0, 27, 0, 28),
     N(";", FALSE, 17, 28, 29, 0, 28, 0, 29),
     N("compound_statement", TRUE, 15, 30, 44, 0, 30, 0, 44),
     N("{", FALSE, 21, 30, 31, 0, 30, 0, 31),
     N("expression_statement", TRUE, 21, 32, 42, 0, 32, 0, 42),
     N("assignment_expression", TRUE, 23, 32, 41, 0, 32, 0, 41),
     N("identifier", TRUE, 24, 32, 33, 0, 32, 0, 33),
     N("=", FALSE, 24, 34, 35, 0, 34, 0, 35),
     N("binary_expression", TRUE, 24, 36, 41, 0, 36, 0, 41),
     N("identifier", TRUE, 27, 36, 37, 0, 36, 0, 37),
     N("+", FALSE, 27, 38, 39, 0, 38, 0, 39),
     N("number_literal", TRUE, 27, 40, 41, 0, 40, 0, 41),
     N(";", FALSE, 23, 41, 42, 0, 41, 0, 42),
     N("}", FALSE, 21, 43, 44, 0, 43, 0, 44),
     N("}", FALSE, 15, 45, 46, 0, 45, 0, 46),
     N("}", FALSE, 9, 47, 48, 0, 47, 0, 48) >>

Corpus ==
  << [source |-> Source1, tree |-> Tree1],
     [source |-> Source2, tree |-> Tree2],
     [source |-> Source3, tree |-> Tree3],
     [source |-> Source4, tree |-> Tree4],
     [source |-> Source5, tree |-> Tree5],
     [source |-> Source6, tree |-> Tree6],
     [source |-> Source7, tree |-> Tree7],
     [source |-> Source8, tree |-> Tree8] >>

\* Number of corpus files a ParserContext may be built from.
MaxDoc == 7

DocIds == 1..MaxDoc

\* usize::MAX, the value `0 - 1` wraps to without overflow checks.  Only its order
\* against real columns is used, so the largest integer TLC represents stands for it.
UsizeMax == 2147483647

(***************************************************************************)
(* LineMap (crate::linemap): byte offset of a (line, character) position   *)
(***************************************************************************)
Indices(s) == [i \in 1..Len(s) |-> i]

\* positions[k]: byte offset at which line k-1 starts
LineStarts(src) ==
  <<0>> \o SelectSeq(Indices(src), LAMBDA i : src[i] = "\n")

offset_for_position(src, p) == LineStarts(src)[p.line + 1] + p.character

NumLines(src) == Len(LineStarts(src))

\* number of bytes of a line, its newline excluded
LineLength(src, line) ==
  LET from == LineStarts(src)[line + 1]
      to == IF line + 2 <= NumLines(src) THEN LineStarts(src)[line + 2] - 1 ELSE Len(src)
  IN to - from

\* cursor positions within the text's line/column bounds (end of line included)
Positions(src) ==
  UNION { { [line |-> l, character |-> c] : c \in 0..LineLength(src, l) } :
          l \in 0..(NumLines(src) - 1) }

(***************************************************************************)
(* tree_sitter::Node                                                       *)
(***************************************************************************)
PointLt(a, b) == a.row < b.row \/ (a.row = b.row /\ a.column < b.column)

PointLte(a, b) == a.row < b.row \/ (a.row = b.row /\ a.column <= b.column)

\* children of n, anonymous ones included, in document order
Children(tree, n) == SelectSeq(Indices(tree), LAMBDA i : tree[i].parent = n)

NodeParent(tree, n) == tree[n].parent

Kind(tree, n) == tree[n].kind

\* Node::utf8_text
utf8_text(src, tree, n) == SubSeq(src, tree[n].startByte + 1, tree[n].endByte)

RECURSIVE IsInSubtree(_, _, _)
IsInSubtree(tree, n, root) ==
  IF n = 0 THEN FALSE
  ELSE IF n = root THEN TRUE
  ELSE IsInSubtree(tree, tree[n].parent, root)

\* One pass over the children of a node in ts_node__descendant_for_point_range:
\* the first child that reaches the end of the range, exceeds its start and
\* starts no later than the range start; 0 when the scan ends without one.
RECURSIVE ChildForRange(_, _, _, _, _)
ChildForRange(tree, kids, i, start, end) ==
  IF i > Len(kids) THEN 0
  ELSE LET c == tree[kids[i]]
       IN IF PointLt(c.endPoint, end) \/ PointLte(c.endPoint, start)
            THEN ChildForRange(tree, kids, i + 1, start, end)
          ELSE IF PointLt(start, c.startPoint) THEN 0
          ELSE kids[i]

RECURSIVE Descend(_, _, _, _, _)
Descend(tree, n, lastVisible, start, end) ==
  LET c == ChildForRange(tree, Children(tree, n), 1, start, end)
  IN IF c = 0 THEN lastVisible
     ELSE Descend(tree, c, IF tree[c].named THEN c ELSE lastVisible, start, end)

\* Node::named_descendant_for_point_range on the root (node 1)
named_descendant_for_point_range(tree, start, end) == Descend(tree, 1, 1, start, end)

(***************************************************************************)
(* Query construction: format!(find_*_str!(), text)                        *)
(***************************************************************************)
\* the slot without its anchors: a substring match
MatchRegexUnanchored(text) == text

\* the "^{}$" slot of the three query templates
MatchRegex(text) == <<"^">> \o text \o <<"$">>

find_function_def_str(text) ==
  [parents |-> {"function_declarator"}, regex |-> MatchRegex(text)]

\* the references template with the definition template's node kind
find_function_refs_str_declarators(text) ==
  [parents |-> {"function_declarator"}, regex |-> MatchRegex(text)]

find_function_refs_str(text) ==
  [parents |-> {"call_expression"}, regex |-> MatchRegex(text)]

find_variable_def_str(text) ==
  [parents |-> {"init_declarator", "parameter_declaration", "declaration"},
   regex |-> MatchRegex(text)]

RECURSIVE ParenDepthOK(_, _, _)
ParenDepthOK(s, i, depth) ==
  IF i > Len(s) THEN depth = 0
  ELSE IF s[i] = "(" THEN ParenDepthOK(s, i + 1, depth + 1)
  ELSE IF s[i] = ")" THEN depth > 0 /\ ParenDepthOK(s, i + 1, depth - 1)
  ELSE ParenDepthOK(s, i + 1, depth)

\* Query::new fails on a string literal the query syntax rejects (a quote or a
\* line break inside the quoted regex) and on a regex that does not compile
\* (unbalanced group).
QueryCompiles(query) ==
  /\ \A i \in 1..Len(query.regex) : query.regex[i] \notin {"\"", "\n", "\\"}
  /\ ParenDepthOK(query.regex, 1, 0)

\* #match?: Regex::is_match of the compiled regex on the captured node's text.
\* Regex syntax occurring in node texts of the corpus: literal bytes, `.`,
\* groups `( )`, and the anchors ^ and $.
RegexIsMatch(regex, hay) ==
  LET anchoredStart == Len(regex) > 0 /\ regex[1] = "^"
      anchoredEnd == Len(regex) > 0 /\ regex[Len(regex)] = "$"
      body == SubSeq(regex, IF anchoredStart THEN 2 ELSE 1,
                            IF anchoredEnd THEN Len(regex) - 1 ELSE Len(regex))
      lit == SelectSeq(body, LAMBDA c : c \notin {"(", ")"})
      MatchesAt(i) ==
        /\ i + Len(lit) - 1 <= Len(hay)
        /\ \A k \in 1..Len(lit) : lit[k] = "." \/ lit[k] = hay[i + k - 1]
  IN \E i \in 1..(Len(hay) + 1) :
        /\ MatchesAt(i)
        /\ anchoredStart => i = 1
        /\ anchoredEnd => i + Len(lit) - 1 = Len(hay)

\* QueryCursor::matches(query, root, source): the captured (identifier) nodes of
\* every match inside root's subtree, in document order.  A pattern
\* (P (identifier) @c) matches each identifier child of a node of kind P.
Captures(src, tree, query, root) ==
  SelectSeq(Indices(tree), LAMBDA i :
    /\ tree[i].named
    /\ tree[i].kind = "identifier"
    /\ tree[i].parent # 0
    /\ tree[tree[i].parent].kind \in query.parents
    /\ IsInSubtree(tree, tree[i].parent, root)
    /\ RegexIsMatch(query.regex, utf8_text(src, tree, i)))

\* the Location pushed for one capture
ToLocation(path, n) ==
  [uri |-> path,
   range |-> [start |-> [line |-> n.startPoint.row, character |-> n.startPoint.column],
              end |-> [line |-> n.endPoint.row, character |-> n.endPoint.column]]]

QueryLocations(path, src, tree, query, root) ==
  LET caps == Captures(src, tree, query, root)
  IN [k \in 1..Len(caps) |-> ToLocation(path, tree[caps[k]])]

(***************************************************************************)
(* ParserContext                                                           *)
(***************************************************************************)
Src == Corpus[doc].source

Tree == Corpus[doc].tree

root_node == 1

is_ascii_alphabetic(c) ==
  c \in {"a", "b", "c", "d", "e", "f", "g", "h", "i", "j", "k", "l", "m",
         "n", "o", "p", "q", "r", "s", "t", "u", "v", "w", "x", "y", "z",
         "A", "B", "C", "D", "E", "F", "G", "H", "I", "J", "K", "L", "M",
         "N", "O", "P", "Q", "R", "S", "T", "U", "V", "W", "X", "Y", "Z"}

\* `start.column -= 1` on a usize: panics with overflow checks, wraps without
SubOne(column, checks) ==
  IF column > 0 THEN [panic |-> FALSE, value |-> column - 1]
  ELSE IF checks THEN [panic |-> TRUE, value |-> 0]
  ELSE [panic |-> FALSE, value |-> UsizeMax]

\* the locator without the look-behind adjustment: always [column, column + 1]
find_node_at_point_ahead(src, tree, p, checks) ==
  LET offset == offset_for_position(src, p)
      point == [row |-> p.line, column |-> p.character]
  IN IF offset >= Len(src)
       THEN [panic |-> TRUE, node |-> 0, look_behind |-> FALSE, start |-> point, end |-> point]
     ELSE LET end == [point EXCEPT !.column = p.character + 1]
          IN [panic |-> FALSE,
              node |-> named_descendant_for_point_range(tree, point, end),
              look_behind |-> FALSE, start |-> point, end |-> end]

\* find_node_at_point: [panic, node, look_behind, start, end]
find_node_at_point(src, tree, p, checks) ==
  LET offset == offset_for_position(src, p)
      point == [row |-> p.line, column |-> p.character]
      none == [panic |-> TRUE, node |-> 0, look_behind |-> FALSE,
               start |-> point, end |-> point]
  IN IF offset >= Len(src) THEN none          \* self.source.as_bytes()[offset]
     ELSE LET look_behind == ~is_ascii_alphabetic(src[offset + 1])
              sub == SubOne(p.character, checks)
          IN IF look_behind /\ sub.panic THEN [none EXCEPT !.look_behind = TRUE]
             ELSE LET start == IF look_behind THEN [point EXCEPT !.column = sub.value]
                                ELSE point
                      end == IF look_behind THEN point
                              ELSE [point EXCEPT !.column = p.character + 1]
                  IN [panic |-> FALSE,
                      node |-> named_descendant_for_point_range(tree, start, end),
                      look_behind |-> look_behind, start |-> start, end |-> end]

\* the match with its wildcard arm narrowed to identifiers
DefinitionsStrategyIdentifierOnly(kind, parentKind) ==
  IF kind = "identifier" /\ parentKind = "call_expression" THEN "function_def"
  ELSE IF kind = "identifier"
          /\ parentKind \in {"argument_list", "field_expression",
                             "binary_expression", "assignment_expression"}
    THEN "variable_def"
  ELSE "none"

\* the match with a further arm ("identifier", "return_statement")
DefinitionsStrategyWithReturn(kind, parentKind) ==
  IF parentKind = "call_expression" THEN "function_def"
  ELSE IF kind = "identifier"
          /\ parentKind \in {"argument_list", "field_expression", "return_statement",
                             "binary_expression", "assignment_expression"}
    THEN "variable_def"
  ELSE "none"

\* the match on (current_node.kind(), parent.kind()) in find_definitions
DefinitionsStrategy(kind, parentKind) ==
  IF parentKind = "call_expression" THEN "function_def"
  ELSE IF kind = "identifier"
          /\ parentKind \in {"argument_list", "field_expression",
                             "binary_expression", "assignment_expression"}
    THEN "variable_def"
  ELSE "none"

\* the match on (current_node.kind(), parent.kind()) in find_references
ReferencesStrategy(kind, parentKind) ==
  IF parentKind = "function_declarator" THEN "function_refs" ELSE "none"

\* simple_global_search: Err when the query does not compile, else every match
\* under the tree's root
simple_global_search(path, src, tree, query) ==
  IF ~QueryCompiles(query) THEN [tag |-> "Err", locs |-> <<>>]
  ELSE [tag |-> "Some", locs |-> QueryLocations(path, src, tree, query, root_node)]

Pending == [tag |-> "pending", locs |-> <<>>]

None == [tag |-> "None", locs |-> <<>>]

Panicked == [tag |-> "panic", locs |-> <<>>]

\* the loop without its advance: `parent` stays where it is
NextParentStuck(tree, n) == n

\* tree_climbing_search's `parent = parent.unwrap().parent()`
NextParent(tree, n) == NodeParent(tree, n)

Init ==
  /\ doc \in DocIds
  /\ overflowChecks \in BOOLEAN
  /\ op = "none"
  /\ pos = [line |-> 0, character |-> 0]
  /\ pc = "idle"
  /\ node = 0
  /\ parent = 0
  /\ locations = <<>>
  /\ strategy = "none"
  /\ searches = <<>>
  /\ result = Pending

\* ParserContext::new: a context is built per request, from the file the request names
NewContext(d) ==
  /\ pc \in {"idle", "done"}
  /\ doc' = d
  /\ op' = "none"
  /\ pos' = [line |-> 0, character |-> 0]
  /\ pc' = "idle"
  /\ node' = 0
  /\ parent' = 0
  /\ locations' = <<>>
  /\ strategy' = "none"
  /\ searches' = <<>>
  /\ result' = Pending
  /\ UNCHANGED overflowChecks

\* find_definitions up to its return, or up to the entry of
\* tree_climbing_search's loop
FindDefinitions(p) ==
  /\ pc = "idle"
  /\ op' = "definitions"
  /\ pos' = p
  /\ LET found == find_node_at_point(Src, Tree, p, overflowChecks)
         cur == found.node
         par == NodeParent(Tree, cur)
         strat == DefinitionsStrategy(Kind(Tree, cur), Kind(Tree, par))
     IN IF found.panic
          THEN /\ pc' = "panic"
               /\ result' = Panicked
               /\ node' = 0 /\ parent' = 0 /\ strategy' = "none" /\ searches' = <<>>
        ELSE IF cur = 0 \/ par = 0
          THEN /\ pc' = "done"
               /\ result' = None
               /\ node' = cur /\ parent' = 0 /\ strategy' = "none" /\ searches' = <<>>
        ELSE /\ node' = cur
             /\ strategy' = strat
             /\ CASE strat = "function_def" ->
                       /\ pc' = "done"
                       /\ result' = simple_global_search(doc, Src, Tree,
                                      find_function_def_str(utf8_text(Src, Tree, cur)))
                       /\ searches' = IF result'.tag = "Some" THEN <<root_node>> ELSE <<>>
                       /\ parent' = 0
                  [] strat = "variable_def" ->
                       /\ pc' = "climb"
                       /\ result' = Pending
                       /\ searches' = <<>>
                       /\ parent' = par
                  [] OTHER ->
                       /\ pc' = "done"
                       /\ result' = None
                       /\ searches' = <<>>
                       /\ parent' = 0
  /\ locations' = <<>>
  /\ UNCHANGED <<doc, overflowChecks>>

\* one iteration of the loop of tree_climbing_search, and the return through
\* find_definitions when the loop breaks
ClimbStep ==
  /\ pc = "climb"
  /\ LET query == find_variable_def_str(utf8_text(Src, Tree, node))
     IN IF parent = 0
          THEN /\ pc' = "done"
               /\ result' = [tag |-> "Some", locs |-> locations]
               /\ UNCHANGED <<parent, locations, searches>>
        ELSE IF ~QueryCompiles(query)
          THEN /\ pc' = "done"
               /\ result' = [tag |-> "Err", locs |-> <<>>]
               /\ UNCHANGED <<parent, locations, searches>>
        ELSE LET found == locations \o QueryLocations(doc, Src, Tree, query, parent)
             IN /\ locations' = found
                /\ searches' = Append(searches, parent)
                /\ IF found # <<>>
                     THEN /\ pc' = "done"
                          /\ result' = [tag |-> "Some", locs |-> found]
                          /\ UNCHANGED parent
                     ELSE /\ parent' = NextParent(Tree, parent)
                          /\ UNCHANGED <<pc, result>>
  /\ UNCHANGED <<doc, overflowChecks, op, pos, node, strategy>>

\* find_references
FindReferences(p) ==
  /\ pc = "idle"
  /\ op' = "references"
  /\ pos' = p
  /\ LET found == find_node_at_point(Src, Tree, p, overflowChecks)
         cur == found.node
         par == NodeParent(Tree, cur)
         strat == ReferencesStrategy(Kind(Tree, cur), Kind(Tree, par))
     IN IF found.panic
          THEN /\ pc' = "panic"
               /\ result' = Panicked
               /\ node' = 0 /\ strategy' = "none" /\ searches' = <<>>
        ELSE IF cur = 0 \/ par = 0
          THEN /\ pc' = "done"
               /\ result' = None
               /\ node' = cur /\ strategy' = "none" /\ searches' = <<>>
        ELSE /\ node' = cur
             /\ strategy' = strat
             /\ pc' = "done"
             /\ IF strat = "function_refs"
                  THEN /\ result' = simple_global_search(doc, Src, Tree,
                                      find_function_refs_str(utf8_text(Src, Tree, cur)))
                       /\ searches' = IF result'.tag = "Some" THEN <<root_node>> ELSE <<>>
                  ELSE /\ result' = None
                       /\ searches' = <<>>
  /\ parent' = 0
  /\ locations' = <<>>
  /\ UNCHANGED <<doc, overflowChecks>>

Next ==
  \/ \E d \in DocIds : NewContext(d)
  \/ pc = "idle" /\ \E p \in Positions(Src) : FindDefinitions(p)
  \/ ClimbStep
  \/ pc = "idle" /\ \E p \in Positions(Src) : FindReferences(p)

Spec == Init /\ [][Next]_vars

\* the request in progress is not abandoned: the loop of tree_climbing_search runs on
FairSpec == Spec /\ WF_vars(ClimbStep)

(***************************************************************************)
(* Vocabulary of the properties                                            *)
(***************************************************************************)
NodeIds == 1..Len(Tree)

Text(n) == utf8_text(Src, Tree, n)

LocationOf(n) == ToLocation(doc, Tree[n])

ResultLocations == { result.locs[k] : k \in 1..Len(result.locs) }

IdentifierNodes == { n \in NodeIds : Tree[n].named /\ Tree[n].kind = "identifier" }

ParentKind(n) == IF Tree[n].parent = 0 THEN "" ELSE Tree[Tree[n].parent].kind

RECURSIVE Ancestors(_)
Ancestors(n) == IF Tree[n].parent = 0 THEN {} ELSE {Tree[n].parent} \cup Ancestors(Tree[n].parent)

CursorPoint == [row |-> pos.line, column |-> pos.character]

CursorOffset == offset_for_position(Src, pos)

\* a request has been made and its node located (the locator did not fault)
Located == op # "none" /\ pc \in {"climb", "done"} /\ node # 0

\* identifiers that name a declared variable or parameter: the declarator of a
\* declaration, init_declarator or parameter_declaration
DeclaratorIds(name) ==
  { n \in IdentifierNodes :
      /\ Text(n) = name
      /\ \/ ParentKind(n) \in {"declaration", "parameter_declaration"}
         \/ ParentKind(n) = "init_declarator" /\ Children(Tree, Tree[n].parent)[1] = n }

ScopeKinds == {"compound_statement", "function_definition", "translation_unit"}

\* the scope a declaration belongs to: its nearest enclosing scope node
ScopeOf(n) ==
  CHOOSE s \in Ancestors(n) :
    /\ Tree[s].kind \in ScopeKinds
    /\ \A t \in Ancestors(n) : Tree[t].kind \in ScopeKinds => t <= s

\* enclosing scopes of the use-site that declare its name themselves
DeclaringScopes(use) ==
  { s \in Ancestors(use) :
      Tree[s].kind \in ScopeKinds /\ \E d \in DeclaratorIds(Text(use)) : ScopeOf(d) = s }

InnermostScope(scopes) == CHOOSE s \in scopes : \A t \in scopes : t <= s

\* the function name of each call to `name`
CallSites(name) ==
  { n \in IdentifierNodes :
      /\ ParentKind(n) = "call_expression"
      /\ Children(Tree, Tree[n].parent)[1] = n
      /\ Text(n) = name }

\* the name of each function declarator of `name`
FunctionNames(name) ==
  { n \in IdentifierNodes : ParentKind(n) = "function_declarator" /\ Text(n) = name }

Keywords == { <<"v", "o", "i", "d">>, <<"i", "n", "t">>, <<"f", "l", "o", "a", "t">>,
              <<"v", "e", "c", "3">>, <<"r", "e", "t", "u", "r", "n">> }

IdentifierBytes == {"_", "0", "1", "2", "3", "4", "5", "6", "7", "8", "9"}

\* the byte under the cursor is a blank, a punctuation mark or part of a keyword
OnWhitespace == CursorOffset < Len(Src) /\ Src[CursorOffset + 1] \in {" ", "\n"}

OnPunctuation ==
  /\ CursorOffset < Len(Src)
  /\ LET c == Src[CursorOffset + 1]
     IN ~is_ascii_alphabetic(c) /\ c \notin IdentifierBytes /\ c \notin {" ", "\n"}

OnKeyword ==
  \E n \in NodeIds :
    /\ Text(n) \in Keywords
    /\ Children(Tree, n) = <<>>
    /\ Tree[n].startByte <= CursorOffset /\ CursorOffset < Tree[n].endByte

NoSymbolCursor == OnWhitespace \/ OnPunctuation \/ OnKeyword

\* the decision tables of the classifier, as the specification states them
DefinitionsTable(n) ==
  /\ Tree[n].parent # 0
  /\ \/ ParentKind(n) = "call_expression"
     \/ /\ Tree[n].kind = "identifier"
        /\ ParentKind(n) \in {"argument_list", "field_expression", "binary_expression",
                              "assignment_expression"}

ReferencesTable(n) == Tree[n].parent # 0 /\ ParentKind(n) = "function_declarator"

(***************************************************************************)
(* C1  Shadowing                                                           *)
(***************************************************************************)
\* C1: when the name of the use-site is declared in an inner and in an outer
\* enclosing scope, the scope-climbing search returns the inner declaration
\* only: the locations are exactly the declarators of the innermost enclosing
\* scope that declares the name.
C1_Shadowing ==
  (pc = "done" /\ strategy = "variable_def" /\ result.tag = "Some"
     /\ Cardinality(DeclaringScopes(node)) >= 2)
  => ResultLocations =
       { LocationOf(d) : d \in { e \in DeclaratorIds(Text(node)) :
                                   ScopeOf(e) = InnermostScope(DeclaringScopes(node)) } }

(***************************************************************************)
(* C2  Climb termination                                                   *)
(***************************************************************************)
NoDeclarationAnywhere ==
  ~ \E n \in IdentifierNodes :
      /\ ParentKind(n) \in {"init_declarator", "parameter_declaration", "declaration"}
      /\ Text(n) = Text(node)

\* C2: the loop of tree_climbing_search always stops, and when no ancestor
\* subtree up to the root holds a matching declaration it stops after the
\* root was searched, with Some(empty list) as the result of find_definitions.
C2_ClimbTerminates ==
  /\ [](pc = "climb" => <>(pc = "done"))
  /\ [](Len(searches) <= (IF node = 0 THEN 0 ELSE Cardinality(Ancestors(node))))
  /\ []((pc = "done" /\ strategy = "variable_def" /\ NoDeclarationAnywhere)
          => /\ result = [tag |-> "Some", locs |-> <<>>]
             /\ Len(searches) = Cardinality(Ancestors(node))
             /\ searches[Len(searches)] = root_node
             /\ parent = 0)

C2_Witness ==
  /\ pc = "done" /\ strategy = "variable_def" /\ NoDeclarationAnywhere
  /\ result = [tag |-> "Some", locs |-> <<>>]
  /\ Len(searches) >= 3

(***************************************************************************)
(* C3  Definition / reference symmetry                                     *)
(***************************************************************************)
\* C3: for a function defined once, find_references on its name in the
\* definition returns exactly the locations of its call sites (as a set), and
\* find_definitions on its name at a call site returns the location of the
\* name in its definition.
C3_Symmetry ==
  /\ (pc = "done" /\ op = "references" /\ node \in IdentifierNodes
        /\ ParentKind(node) = "function_declarator"
        /\ Cardinality(FunctionNames(Text(node))) = 1)
     => /\ result.tag = "Some"
        /\ ResultLocations = { LocationOf(c) : c \in CallSites(Text(node)) }
        /\ Len(result.locs) = Cardinality(CallSites(Text(node)))
  /\ (pc = "done" /\ op = "definitions" /\ node \in CallSites(Text(node))
        /\ Cardinality(FunctionNames(Text(node))) = 1)
     => /\ result.tag = "Some"
        /\ ResultLocations = { LocationOf(f) : f \in FunctionNames(Text(node)) }
        /\ Len(result.locs) = 1

\* foo of the second file: defined once, called at (1,31) and (1,40)
C3_Witness ==
  /\ doc = 2 /\ pc = "done" /\ op = "references"
  /\ Text(node) = <<"f", "o", "o">>
  /\ ParentKind(node) = "function_declarator"
  /\ ResultLocations =
       { [uri |-> 2, range |-> [start |-> [line |-> 1, character |-> 31],
                                end |-> [line |-> 1, character |-> 34]]],
         [uri |-> 2, range |-> [start |-> [line |-> 1, character |-> 40],
                                end |-> [line |-> 1, character |-> 43]]] }

(***************************************************************************)
(* C4  Exact match                                                         *)
(***************************************************************************)
LocationsSoFar ==
  ResultLocations \cup { locations[k] : k \in 1..Len(locations) }

\* C4: every location a search for the identifier text t returns is the span
\* of an identifier whose text is exactly t.
C4_ExactMatch ==
  (Located /\ Tree[node].kind = "identifier")
  => \A l \in LocationsSoFar :
       \E n \in IdentifierNodes : LocationOf(n) = l /\ Text(n) = Text(node)

\* a variable search for foo that found it, in a file that also names foobar and barfoo
C4_Witness ==
  /\ pc = "done" /\ strategy = "variable_def"
  /\ Text(node) = <<"f", "o", "o">>
  /\ Len(result.locs) = 1
  /\ \E a, b \in IdentifierNodes :
       /\ Text(a) = <<"f", "o", "o", "b", "a", "r">>
       /\ Text(b) = <<"b", "a", "r", "f", "o", "o">>
       /\ ParentKind(a) = "init_declarator" /\ ParentKind(b) = "init_declarator"

IdentifierEndingAtCursor ==
  { n \in IdentifierNodes : Tree[n].endPoint = CursorPoint }

C6_BoundaryCursor ==
  (op # "none" /\ pc \in {"climb", "done"})
  => \A n \in IdentifierNodes :
       (Tree[n].startPoint = CursorPoint \/ Tree[n].endPoint = CursorPoint) => node = n

(***************************************************************************)
(* C7  Concrete scenario                                                   *)
(***************************************************************************)
ShadeCallCursor == pos.line = 1 /\ pos.character \in 14..19

ReturnCCursor == pos.line = 0 /\ pos.character \in 40..41

\* C7 as claimed, in the first file: the cursor on the `c` of `return c;`
\* resolves by the scope-climbing search to the span of the init_declarator
\* of `vec3 c = n;` (node 16), and the cursor on `shade(` at the call site
\* resolves by the global search to the span of the function_declarator of
\* shade (node 4).
C7_ScenarioAsClaimed ==
  (doc = 1 /\ pc = "done" /\ op = "definitions")
  => /\ ReturnCCursor => /\ strategy = "variable_def"
                         /\ result = [tag |-> "Some", locs |-> <<LocationOf(16)>>]
     /\ ShadeCallCursor => /\ strategy = "function_def"
                           /\ result = [tag |-> "Some", locs |-> <<LocationOf(4)>>]

\* C7 as amended: the cursor on the `c` of `return c;` yields None without any
\* search (return_statement is no parent kind of the decision table), and the
\* cursor on `shade(` at the call site resolves by one global search to the
\* span of the identifier `shade` inside the function_declarator, (0,5)-(0,10).
C7_ScenarioAmended ==
  (doc = 1 /\ op = "definitions" /\ pc \in {"climb", "done"})
  => /\ ReturnCCursor => /\ pc = "done" /\ result = None
                         /\ strategy = "none" /\ searches = <<>>
     /\ ShadeCallCursor =>
          /\ pc = "done" /\ strategy = "function_def" /\ searches = <<root_node>>
          /\ result = [tag |-> "Some",
                       locs |-> << [uri |-> 1,
                                    range |-> [start |-> [line |-> 0, character |-> 5],
                                               end |-> [line |-> 0, character |-> 10]]] >>]

C7_Witness ==
  /\ doc = 1 /\ op = "definitions" /\ pc = "done"
  /\ pos = [line |-> 1, character |-> 14]
  /\ Tree[node].kind = "identifier" /\ Text(node) = <<"s", "h", "a", "d", "e">>
  /\ result.tag = "Some" /\ Len(result.locs) = 1

(***************************************************************************)
(* C8  Decision table of find_definitions                                  *)
(***************************************************************************)
\* C8: for a located node, find_definitions runs the global function
\* definition search exactly when the parent kind is call_expression, the
\* scope-climbing search exactly when the node is an identifier under an
\* argument_list, field_expression, binary_expression or
\* assignment_expression, and returns None without a search for every other
\* pair and for a node without parent; nothing else yields Some.
C8_DefinitionsTable ==
  (op = "definitions" /\ Located)
  => IF Tree[node].parent = 0
       THEN pc = "done" /\ result = None /\ searches = <<>>
     ELSE /\ strategy = "function_def" <=> ParentKind(node) = "call_expression"
          /\ strategy = "variable_def"
               <=> /\ Tree[node].kind = "identifier"
                   /\ ParentKind(node) \in {"argument_list", "field_expression",
                                            "binary_expression", "assignment_expression"}
          /\ strategy = "function_def"
               => /\ pc = "done"
                  /\ \/ result.tag = "Some" /\ searches = <<root_node>>
                     \/ result.tag = "Err" /\ searches = <<>>
          /\ strategy = "variable_def"
               => /\ pc = "done" => result.tag \in {"Some", "Err"}
                  /\ \A k \in 1..Len(searches) : searches[k] \in Ancestors(node)
          /\ strategy = "none" => pc = "done" /\ result = None /\ searches = <<>>
          /\ strategy \in {"none", "function_def", "variable_def"}

\* the wildcard arm taken by a node that is not an identifier
C8_Witness ==
  /\ op = "definitions" /\ pc = "done"
  /\ Tree[node].kind = "argument_list" /\ ParentKind(node) = "call_expression"
  /\ strategy = "function_def" /\ result.tag = "Some"

(***************************************************************************)
(* C9  Decision table of find_references                                   *)
(***************************************************************************)
\* C9: find_references returns Some(locations) exactly when the located node
\* has a function_declarator parent; locations then are all call expressions
\* of the whole tree whose identifier equals the node's text, found by one
\* search over the root; otherwise it returns None and runs no search.
C9_ReferencesTable ==
  (op = "references" /\ pc = "done")
  => IF node # 0 /\ ReferencesTable(node)
       THEN /\ result.tag = "Some"
            /\ searches = <<root_node>>
            /\ ResultLocations = { LocationOf(c) : c \in CallSites(Text(node)) }
            /\ Len(result.locs) = Cardinality(CallSites(Text(node)))
     ELSE result = None /\ searches = <<>>

(***************************************************************************)
(* C10  The node locator on in-bounds cursors                              *)
(***************************************************************************)
\* C10: for every in-bounds cursor the locator reads a byte inside the source,
\* computes a start column that is not below 0 (column - 1 does not wrap) and
\* returns without faulting.
C10_LocatorTotal ==
  op # "none"
  => /\ CursorOffset < Len(Src)
     /\ pc # "panic"
     /\ find_node_at_point(Src, Tree, pos, overflowChecks).start.column <= pos.character

=============================================================================
